---- MODULE Spec2Model ----
(***************************************************************************)
(* A model of ozz-animation-rs' runtime data layer:                        *)
(*   - the archive decoder of skeleton.rs (Skeleton::read_meta and         *)
(*     Skeleton::from_archive), one action per archive read;               *)
(*   - the hierarchy queries of skeleton.rs (is_leaf, iter_depth_first);   *)
(*   - the buffer access traits of base.rs (OzzBuf::buf and                *)
(*     OzzMutBuf::mut_buf) for the five ownership strategies;              *)
(*   - the error type of base.rs (OzzError) and its is_* predicates.       *)
(* Joint indices are 0-based in the code; sequences are 1-based here, so   *)
(* joint i of a vector v is v[i + 1] (operator At).                        *)
(***************************************************************************)
EXTENDS Integers, Sequences, FiniteSets, TLC

VARIABLES
    \* ---- the archive handed to the decoder (crate::archive::Archive) ----
    tag,              \* archive.tag()
    version,          \* archive.version()
    entry,            \* which entry point was called: "read_meta" or "from_archive"
    with_joints,      \* read_meta's with_joints argument
    \* ---- the decoder's locals ----
    lpc,              \* position in read_meta / from_archive
    reads,            \* the archive reads performed so far, <<kind, outcome>> each
    num_joints,       \* let num_joints: i32
    idx,              \* the name loop's idx
    names_read,       \* the names decoded so far, in read order
    joint_names,      \* the BiHashMap under construction: a set of <<name, index>>
    meta_parents,     \* let joint_parents: Vec<i16>
    soa_num_joints,   \* let soa_num_joints
    joint_rest_poses, \* the rest poses pushed so far
    result,           \* what the entry point returned: "none" while running
    meta,             \* the SkeletonMeta returned, or NoValue
    \* ---- a constructed Skeleton and the hierarchy queries on it ----
    skeleton,         \* the Skeleton returned / under traversal, or NoValue
    from,             \* iter_depth_first's from: its value below 2^31
    from_high,        \* and, for a usize from, its multiple of 2^31 above that
    i,                \* iter_depth_first's i
    tpc,              \* position in iter_depth_first
    visited,          \* the calls of f so far, <<joint, parent>> each
    leaf_joint,       \* is_leaf's joint argument
    leaf_result,      \* what is_leaf returned
    \* ---- one buffer and the views of it (base.rs) ----
    strategy,         \* the ownership strategy of the buffer
    policy,           \* the RwLock's reader/writer priority policy
    vpc,              \* per caller: position in buf() / mut_buf()
    ret,              \* per caller: what its last buf() / mut_buf() returned
    poisoned,         \* the RwLock's poison flag
    \* ---- the size arithmetic of from_archive on the whole i32 range ----
    cpc,
    cnt_num_joints,
    cnt_parents_len,
    cnt_rest_len,
    \* ---- one OzzError value and the predicates asked of it (base.rs) ----
    error,              \* the OzzError value
    answers           \* per is_* predicate: what it returned for error

vars == <<tag, version, entry, with_joints, lpc, reads, num_joints, idx, names_read,
          joint_names, meta_parents, soa_num_joints, joint_rest_poses, result, meta,
          skeleton, from, from_high, i, tpc, visited, leaf_joint, leaf_result,
          strategy, policy, vpc, ret, poisoned,
          cpc, cnt_num_joints, cnt_parents_len, cnt_rest_len, error, answers>>

loadVars == <<tag, version, entry, with_joints, lpc, reads, num_joints, idx, names_read,
              joint_names, meta_parents, soa_num_joints, joint_rest_poses, result, meta>>
travVars == <<from, from_high, i, tpc, visited, leaf_joint, leaf_result>>
bufVars == <<strategy, policy, vpc, ret, poisoned>>
cntVars == <<cpc, cnt_num_joints, cnt_parents_len, cnt_rest_len>>
errVars == <<error, answers>>

----------------------------------------------------------------------------
(* Bounds of the model *)

\* The largest joint count an archive of the decoder model declares.
MaxArchiveJoints == 5
\* The largest skeleton the hierarchy queries are run on.
MaxJoints == 4
\* The number of callers (threads, or call sites of one thread) sharing the buffer.
NumCallers == 3
\* The usize values of iter_depth_first's from reach below (MaxFromHigh + 1) * 2^31.
MaxFromHigh == 2
\* The size arithmetic is run on the joint counts -1..MaxCount and the top of i32.
MaxCount == 68

----------------------------------------------------------------------------
(* Program constants and integer conversions *)

\* An absent value (None, or nothing returned yet) is the empty sequence and a
\* present value x is <<x>>.
NoValue == <<>>
Some(x) == <<x>>

\* Skeleton::tag()
SkeletonTag == "ozz-skeleton"
\* Skeleton::version()
SkeletonVersion == 2
\* SKELETON_NO_PARENT
SKELETON_NO_PARENT == 0 - 1

I32Max == 2147483647
I32Min == 0 - I32Max - 1
I16Max == 32767

\* a + b on i32 without overflow checks, for b >= 0: two's complement wrap-around
\* (written so that no intermediate value leaves the i32 range).
WrappingAddI32(a, b) ==
    IF a > I32Max - b THEN I32Min + ((a - (I32Max - b)) - 1) ELSE a + b
\* `as i16`: two's complement truncation to 16 bits.
ToI16(x) == ((x + I16Max + 1) % (2 * (I16Max + 1))) - (I16Max + 1)
\* Rust's integer division truncates toward zero; \div rounds down. For b > 0.
TruncDiv(a, b) == IF a >= 0 THEN a \div b ELSE (a + (b - 1)) \div b

At(v, k) == v[k + 1]

----------------------------------------------------------------------------
(* The archive: what its reads can produce *)

\* Tags and versions an archive header can carry.
Tags == {SkeletonTag, "ozz-animation"}
Versions == {SkeletonVersion - 1, SkeletonVersion, SkeletonVersion + 1}

\* Joint counts an archive declares (an i32: zero, positive or negative).
JointCounts == (0 - 1)..MaxArchiveJoints

NameList == <<"Hips", "Spine", "Spine1", "Neck", "Head", "LeftArm", "RightArm", "Tail">>

\* The name string an archive can hold at position k: the name of joint k, or a
\* repetition of the name of joint 0 or of joint k - 1.
NameChoices(k) ==
    {NameList[k + 1]} \cup (IF k > 0 THEN {NameList[1], NameList[k]} ELSE {})

\* The parent vectors an archive of n joints can hold: at position k the root
\* sentinel, the previous joint, or the next joint (a forward reference, which
\* the last joint's makes an index out of range).
RECURSIVE ParentVectors(_)
ParentVectors(n) ==
    IF n = 0 THEN {<<>>}
    ELSE {Append(v, p) : v \in ParentVectors(n - 1),
                         p \in {SKELETON_NO_PARENT, n - 2, n}}

\* The one rest-pose record an archive holds at each position.
RestPose == "SoaTransform"

\* How a read of the archive can fail: the stream ends or breaks (any read), or
\* the bytes of a name are not UTF-8 (a String read).
ReadErrors(kind) == IF kind = "name" THEN {"IO", "Utf8"} ELSE {"IO"}

----------------------------------------------------------------------------
(* bimap::BiHashMap<String, i16>, as the set of its <<left, right>> pairs *)

EmptyMap == {}

\* BiHashMap::insert: the pairs holding the same left or the same right value are
\* removed and the new pair is added.
BiInsert(m, l, r) == {e \in m : e[1] # l /\ e[2] # r} \cup {<<l, r>>}

\* BiHashMap::get_by_left / get_by_right: the set of matches (empty for None).
GetByLeft(m, l) == {e[2] : e \in {x \in m : x[1] = l}}
GetByRight(m, r) == {e[1] : e \in {x \in m : x[2] = r}}

----------------------------------------------------------------------------
(* Skeleton::read_meta and Skeleton::from_archive *)

SkeletonMeta(n, names, parents) ==
    [version |-> SkeletonVersion, num_joints |-> n,
     joint_names |-> names, joint_parents |-> parents]

Skeleton(poses, parents, names) ==
    [joint_rest_poses |-> poses, joint_parents |-> parents, joint_names |-> names]

\* `?` on a failed read: the error is returned, nothing else is touched.
FailIgnored(kind, err) ==
    /\ reads' = Append(reads, <<kind, err>>)
    /\ UNCHANGED <<result, lpc>>
Fail(kind, err) ==
    /\ reads' = Append(reads, <<kind, err>>)
    /\ result' = err
    /\ lpc' = "failed"

\* What read_meta's Ok(..) does to the caller: read_meta returns it, from_archive
\* goes on with the rest poses.
ReturnMeta(m) ==
    /\ meta' = Some(m)
    /\ lpc' = IF entry = "read_meta" THEN "done" ELSE "meta"
    /\ result' = IF entry = "read_meta" THEN "Ok" ELSE "none"

\* skeleton.rs:125-130: the header checks, tag first.
HeaderErrorVersionFirst(t, v) ==
    IF v # SkeletonVersion THEN "InvalidVersion"
    ELSE IF t # SkeletonTag THEN "InvalidTag"
    ELSE "none"
HeaderError(t, v) ==
    IF t # SkeletonTag THEN "InvalidTag"
    ELSE IF v # SkeletonVersion THEN "InvalidVersion"
    ELSE "none"

CheckHeader ==
    /\ lpc = "start"
    /\ IF HeaderError(tag, version) # "none"
       THEN /\ result' = HeaderError(tag, version)
            /\ lpc' = "failed"
       ELSE /\ lpc' = "num_joints"
            /\ UNCHANGED result
    /\ UNCHANGED <<tag, version, entry, with_joints, reads, num_joints, idx, names_read,
                   joint_names, meta_parents, soa_num_joints, joint_rest_poses, meta,
                   skeleton>>
    /\ UNCHANGED <<travVars, bufVars, cntVars, errVars>>

\* skeleton.rs:132-140: let num_joints: i32 = archive.read()?; the early return.
ReadNumJoints ==
    /\ lpc = "num_joints"
    /\ \/ \E err \in ReadErrors("num_joints") :
            /\ Fail("num_joints", err)
            /\ UNCHANGED <<num_joints, meta>>
       \/ \E n \in JointCounts :
            /\ reads' = Append(reads, <<"num_joints", "ok">>)
            /\ num_joints' = n
            /\ IF n = 0 \/ ~with_joints
               THEN ReturnMeta(SkeletonMeta(n, EmptyMap, <<>>))
               ELSE /\ lpc' = "char_count"
                    /\ UNCHANGED <<result, meta>>
    /\ UNCHANGED <<tag, version, entry, with_joints, idx, names_read, joint_names,
                   meta_parents, soa_num_joints, joint_rest_poses, skeleton>>
    /\ UNCHANGED <<travVars, bufVars, cntVars, errVars>>

\* skeleton.rs:142-147: let _char_count: i32 = archive.read()?; then the map is
\* allocated with capacity num_joints as usize. A negative count converts to a
\* capacity above 2^63 and the allocation panics (capacity overflow).
ReadCharCount ==
    /\ lpc = "char_count"
    /\ \/ \E err \in ReadErrors("char_count") : Fail("char_count", err)
       \/ /\ reads' = Append(reads, <<"char_count", "ok">>)
          /\ lpc' = IF num_joints < 0 THEN "panicked" ELSE "name"
          /\ UNCHANGED result
    /\ idx' = 0
    /\ joint_names' = EmptyMap
    /\ UNCHANGED <<tag, version, entry, with_joints, num_joints, names_read,
                   meta_parents, soa_num_joints, joint_rest_poses, meta, skeleton>>
    /\ UNCHANGED <<travVars, bufVars, cntVars, errVars>>

\* skeleton.rs:149: the map's right value of the idx-th name, idx as i16.
JointIndexOneBased(k) == ToI16(k + 1)
JointIndex(k) == ToI16(k)

\* skeleton.rs:148-150: one turn of the name loop,
\* joint_names.insert(archive.read::<String>()?, idx as i16).
ReadName ==
    /\ lpc = "name"
    /\ idx < num_joints
    /\ \/ \E err \in ReadErrors("name") :
            /\ Fail("name", err)
            /\ UNCHANGED <<idx, names_read, joint_names>>
       \/ \E name \in NameChoices(idx) :
            /\ reads' = Append(reads, <<"name", "ok">>)
            /\ names_read' = Append(names_read, name)
            /\ joint_names' = BiInsert(joint_names, name, JointIndex(idx))
            /\ idx' = idx + 1
            /\ lpc' = IF idx + 1 < num_joints THEN "name" ELSE "parents"
            /\ UNCHANGED result
    /\ UNCHANGED <<tag, version, entry, with_joints, num_joints, meta_parents,
                   soa_num_joints, joint_rest_poses, meta, skeleton>>
    /\ UNCHANGED <<travVars, bufVars, cntVars, errVars>>

\* skeleton.rs:152-159: archive.read_vec(num_joints as usize)? and the Ok(..).
ReadParents ==
    /\ lpc = "parents"
    /\ \/ \E err \in ReadErrors("parents") :
            /\ Fail("parents", err)
            /\ UNCHANGED <<meta_parents, meta>>
       \/ \E v \in ParentVectors(num_joints) :
            /\ reads' = Append(reads, <<"parents", "ok">>)
            /\ meta_parents' = v
            /\ ReturnMeta(SkeletonMeta(num_joints, joint_names, v))
    /\ UNCHANGED <<tag, version, entry, with_joints, num_joints, idx, names_read,
                   joint_names, soa_num_joints, joint_rest_poses, skeleton>>
    /\ UNCHANGED <<travVars, bufVars, cntVars, errVars>>

\* skeleton.rs:166: (meta.num_joints + 3) / 4 on i32. The sum overflows for a
\* count above i32::MAX - 3: a build with overflow checks panics there, a build
\* without them wraps.
SoaNumJointsFloor(n) == TruncDiv(n, 4)
SoaNumJoints(n) == TruncDiv(WrappingAddI32(n, 3), 4)

SoaOverflows(n) == n > I32Max - 3

\* What line 166 can do: panic (overflow checks) or produce a value.
SoaOutcomes(n) ==
    {[panic |-> FALSE, value |-> SoaNumJoints(n)]}
        \cup (IF SoaOverflows(n) THEN {[panic |-> TRUE, value |-> 0]} ELSE {})

\* skeleton.rs:172-176: the Ok(Skeleton {..}) of from_archive.
ReturnSkeleton(poses) ==
    /\ skeleton' = Some(Skeleton(poses, meta[1].joint_parents, meta[1].joint_names))
    /\ result' = "Ok"
    /\ lpc' = "done"

\* skeleton.rs:166-168: the rest-pose count and the vector's allocation with
\* capacity soa_num_joints as usize: a negative count converts to a capacity
\* above 2^63 and the allocation panics; a count of zero skips the loop.
RestPoseCount ==
    /\ lpc = "meta"
    /\ \E o \in SoaOutcomes(meta[1].num_joints) :
          /\ soa_num_joints' = o.value
          /\ IF o.panic \/ o.value < 0
             THEN /\ lpc' = "panicked"
                  /\ UNCHANGED <<result, skeleton>>
             ELSE IF o.value = 0
             THEN ReturnSkeleton(<<>>)
             ELSE /\ lpc' = "rest_pose"
                  /\ UNCHANGED <<result, skeleton>>
    /\ joint_rest_poses' = <<>>
    /\ UNCHANGED <<tag, version, entry, with_joints, reads, num_joints, idx, names_read,
                   joint_names, meta_parents, meta>>
    /\ UNCHANGED <<travVars, bufVars, cntVars, errVars>>

\* skeleton.rs:168-176: one turn of the loop, joint_rest_poses.push(archive.read()?),
\* and after the last one the Ok(Skeleton {..}).
ReadRestPose ==
    /\ lpc = "rest_pose"
    /\ Len(joint_rest_poses) < soa_num_joints
    /\ \/ \E err \in ReadErrors("rest_pose") :
            /\ Fail("rest_pose", err)
            /\ UNCHANGED <<joint_rest_poses, skeleton>>
       \/ /\ reads' = Append(reads, <<"rest_pose", "ok">>)
          /\ joint_rest_poses' = Append(joint_rest_poses, RestPose)
          /\ IF Len(joint_rest_poses) + 1 < soa_num_joints
             THEN UNCHANGED <<lpc, result, skeleton>>
             ELSE ReturnSkeleton(Append(joint_rest_poses, RestPose))
    /\ UNCHANGED <<tag, version, entry, with_joints, num_joints, idx, names_read,
                   joint_names, meta_parents, soa_num_joints, meta>>
    /\ UNCHANGED <<travVars, bufVars, cntVars, errVars>>

----------------------------------------------------------------------------
(* Skeleton's size accessors *)

\* skeleton.rs:197-199
NumJoints(sk) == Len(sk.joint_parents)
\* skeleton.rs:210-212: (self.joint_parents.len() + 3) / 4 on usize.
NumSoaJointsOfLen(len) == (len + 3) \div 4
NumSoaJoints(sk) == NumSoaJointsOfLen(Len(sk.joint_parents))

----------------------------------------------------------------------------
(* from_archive on an archive all of whose reads succeed, by sizes only: the  *)
(* joint count ranges over small values and over the top of the i32 range,    *)
(* where the contents cannot be enumerated. The parent vector has num_joints  *)
(* entries (none after the early return), the rest poses one per loop turn.   *)

SizeInputs == ((0 - 1)..MaxCount) \cup {I32Max - k : k \in 0..4}

FromArchiveSizes ==
    /\ cpc = "start"
    /\ IF cnt_num_joints < 0
       THEN \* line 143: the map's capacity overflows
            /\ cpc' = "panicked"
            /\ UNCHANGED <<cnt_parents_len, cnt_rest_len>>
       ELSE \E o \in SoaOutcomes(cnt_num_joints) :
            IF o.panic \/ o.value < 0
            THEN /\ cpc' = "panicked"
                 /\ UNCHANGED <<cnt_parents_len, cnt_rest_len>>
            ELSE /\ cpc' = "returned"
                 /\ cnt_parents_len' = cnt_num_joints
                 /\ cnt_rest_len' = o.value
    /\ UNCHANGED cnt_num_joints
    /\ UNCHANGED <<loadVars, skeleton, travVars, bufVars, errVars>>

----------------------------------------------------------------------------
(* Skeleton::is_leaf and Skeleton::iter_depth_first *)

\* The parent values of the skeletons the queries are run on: the sentinel and
\* every index a skeleton of MaxJoints joints has (so also self and forward
\* references, and indices out of range for a shorter skeleton).
ParentVals == SKELETON_NO_PARENT..(MaxJoints - 1)

RECURSIVE ParentSeqs(_)
ParentSeqs(n) ==
    IF n = 0 THEN {<<>>}
    ELSE {Append(v, p) : v \in ParentSeqs(n - 1), p \in ParentVals}

\* The start joints iter_depth_first is called with (an i16, i32 or usize).
FromVals == (0 - 2)..(MaxJoints + 1)

\* skeleton.rs:255-258: is_leaf. joint_parents()[next] is an index out of
\* bounds, a panic, for next > num_joints().
IsLeafLastOnly(sk, joint) ==
    IF joint + 1 > NumJoints(sk) THEN "panic"
    ELSE IF joint + 1 = NumJoints(sk) THEN "true" ELSE "false"
IsLeafValue(sk, joint) ==
    IF joint + 1 = NumJoints(sk) THEN "true"
    ELSE IF joint + 1 > NumJoints(sk) THEN "panic"
    ELSE IF At(sk.joint_parents, joint + 1) # joint THEN "true" ELSE "false"

IsLeaf ==
    /\ tpc = "idle" /\ leaf_result = "none"
    /\ skeleton # NoValue
    /\ \E joint \in 0..NumJoints(skeleton[1]) :
          /\ leaf_joint' = joint
          /\ leaf_result' = IsLeafValue(skeleton[1], joint)
    /\ UNCHANGED <<from, from_high, i, tpc, visited, skeleton>>
    /\ UNCHANGED <<loadVars, bufVars, cntVars, errVars>>

\* skeleton.rs:273: the test that joint i still belongs to the traversal,
\* self.joint_parent(i) as i32 >= from.i32().
StillInsideStrict(parent, start) == parent > start
StillInsideFromRoot(parent, start) == parent >= 0
StillInside(parent, start) == parent >= start

\* base.rs:137-155: the conversions of an OzzIndex, `*self as i32` and
\* `*self as usize`, of the index high * 2^31 + low. An i16 or i32 (high = 0)
\* keeps its value as an i32; of a usize, `as i32` keeps the low 32 bits, so
\* that an odd multiple of 2^31 makes it negative.
IndexI32(high, low) == IF high % 2 = 1 THEN I32Min + low ELSE low
\* `*self as usize` of a non-negative index, where a value of 2^31 or more,
\* which only ever is compared with num_joints(), is held as I32Max.
IndexUsize(high, low) == IF high > 0 THEN I32Max ELSE low

\* The arguments iter_depth_first is called with: an i16, an i32 or a small
\* usize (high = 0), or a usize of 2^31 or more.
FromArgs == {<<0, low>> : low \in FromVals}
            \cup {<<high, low>> : high \in 1..MaxFromHigh, low \in 0..(MaxJoints + 1)}

\* skeleton.rs:268-269: let mut i = ..; let mut process = i < self.num_joints().
IterStart ==
    /\ tpc = "idle" /\ leaf_result = "none"
    /\ skeleton # NoValue
    /\ \E arg \in FromArgs :
          LET start == IF IndexI32(arg[1], arg[2]) < 0 THEN 0
                       ELSE IndexUsize(arg[1], arg[2])
          IN  /\ from_high' = arg[1]
              /\ from' = arg[2]
              /\ i' = start
              /\ tpc' = IF start < NumJoints(skeleton[1]) THEN "loop" ELSE "done"
    /\ visited' = <<>>
    /\ UNCHANGED <<leaf_joint, leaf_result, skeleton>>
    /\ UNCHANGED <<loadVars, bufVars, cntVars, errVars>>

\* skeleton.rs:270-274: one turn of the loop. self.joint_parent(i) is
\* self.joint_parents[i], a panic for i >= num_joints().
IterStep ==
    /\ tpc = "loop"
    /\ IF i >= NumJoints(skeleton[1])
       THEN /\ tpc' = "panicked"
            /\ UNCHANGED <<i, visited>>
       ELSE /\ visited' = Append(visited, <<ToI16(i), At(skeleton[1].joint_parents, i)>>)
            /\ i' = i + 1
            /\ tpc' = IF /\ i + 1 < NumJoints(skeleton[1])
                         /\ StillInside(At(skeleton[1].joint_parents, i + 1),
                                        IndexI32(from_high, from))
                      THEN "loop" ELSE "done"
    /\ UNCHANGED <<from, from_high, leaf_joint, leaf_result, skeleton>>
    /\ UNCHANGED <<loadVars, bufVars, cntVars, errVars>>

----------------------------------------------------------------------------
(* OzzBuf::buf and OzzMutBuf::mut_buf (base.rs)                               *)
(*                                                                            *)
(* One buffer is shared by the callers 1..NumCallers, each holding its own    *)
(* handle and at most one view at a time. For Arc<RwLock<Vec<T>>> the callers *)
(* are threads; for the other strategies they are call sites of one thread.   *)

Callers == 1..NumCallers

Strategies == {"slice", "mut_slice", "vec", "rc_refcell", "arc_rwlock"}

\* std::sync::RwLock leaves the priority policy to the platform: "a writer
\* which is waiting to acquire the lock in write might or might not block
\* concurrent calls to read". Both policies are outcomes a build can produce.
Policies == {"readers_pass_waiting_writer", "readers_queue_behind_writer"}

Readers == {c \in Callers : vpc[c] = "reading"}
Writers == {c \in Callers : vpc[c] = "writing"}
WaitingWriters == {c \in Callers : vpc[c] = "wait_write"}

GrantView(c, kind) ==
    /\ vpc' = [vpc EXCEPT ![c] = kind]
    /\ ret' = [ret EXCEPT ![c] = "Ok"]

\* base.rs:244-246 and 270-272: buf() of &[T] and of &mut [T], Ok(ObSliceRef(self)).
\* The borrow checker admits the call only while no ObSliceRefMut of the slice
\* is alive.
SliceBuf(c) ==
    /\ strategy \in {"slice", "mut_slice"}
    /\ vpc[c] = "idle"
    /\ Writers = {}
    /\ GrantView(c, "reading")
    /\ UNCHANGED <<strategy, policy, poisoned>>
    /\ UNCHANGED <<loadVars, skeleton, travVars, cntVars, errVars>>

\* base.rs:281-283: mut_buf() of &mut [T], Ok(ObSliceRefMut(self)); it takes
\* &mut self, which the borrow checker grants only while no view is alive.
SliceMutBuf(c) ==
    /\ strategy = "mut_slice"
    /\ vpc[c] = "idle"
    /\ Readers = {} /\ Writers = {}
    /\ GrantView(c, "writing")
    /\ UNCHANGED <<strategy, policy, poisoned>>
    /\ UNCHANGED <<loadVars, skeleton, travVars, cntVars, errVars>>

\* base.rs:312-314: buf() of Vec<T>.
VecBuf(c) ==
    /\ strategy = "vec"
    /\ vpc[c] = "idle"
    /\ Writers = {}
    /\ GrantView(c, "reading")
    /\ UNCHANGED <<strategy, policy, poisoned>>
    /\ UNCHANGED <<loadVars, skeleton, travVars, cntVars, errVars>>

\* base.rs:321-323: mut_buf() of Vec<T>.
VecMutBuf(c) ==
    /\ strategy = "vec"
    /\ vpc[c] = "idle"
    /\ Readers = {} /\ Writers = {}
    /\ GrantView(c, "writing")
    /\ UNCHANGED <<strategy, policy, poisoned>>
    /\ UNCHANGED <<loadVars, skeleton, travVars, cntVars, errVars>>

\* RefCell::borrow / borrow_mut panic on a conflicting borrow; the thread, the
\* only one that can hold the Rc, unwinds and every view dies with it.
CellPanic ==
    /\ vpc' = [d \in Callers |-> "panicked"]
    /\ UNCHANGED ret

\* base.rs:334-336: buf() of Rc<RefCell<Vec<T>>>, Ok(ObCellRef(self.borrow())).
CellBuf(c) ==
    /\ strategy = "rc_refcell"
    /\ vpc[c] = "idle"
    /\ IF Writers # {} THEN CellPanic ELSE GrantView(c, "reading")
    /\ UNCHANGED <<strategy, policy, poisoned>>
    /\ UNCHANGED <<loadVars, skeleton, travVars, cntVars, errVars>>

\* base.rs:354-356: mut_buf() of Rc<RefCell<Vec<T>>>,
\* Ok(ObCellRefMut(self.borrow_mut())).
CellMutBuf(c) ==
    /\ strategy = "rc_refcell"
    /\ vpc[c] = "idle"
    /\ IF Readers # {} \/ Writers # {} THEN CellPanic ELSE GrantView(c, "writing")
    /\ UNCHANGED <<strategy, policy, poisoned>>
    /\ UNCHANGED <<loadVars, skeleton, travVars, cntVars, errVars>>

\* base.rs:386 and 409: the thread enters self.read() / self.write(), which
\* block until the lock can be taken.
LockBufCall(c) ==
    /\ strategy = "arc_rwlock"
    /\ vpc[c] = "idle"
    /\ vpc' = [vpc EXCEPT ![c] = "wait_read"]
    /\ ret' = [ret EXCEPT ![c] = "none"]
    /\ UNCHANGED <<strategy, policy, poisoned>>
    /\ UNCHANGED <<loadVars, skeleton, travVars, cntVars, errVars>>

LockMutBufCall(c) ==
    /\ strategy = "arc_rwlock"
    /\ vpc[c] = "idle"
    /\ vpc' = [vpc EXCEPT ![c] = "wait_write"]
    /\ ret' = [ret EXCEPT ![c] = "none"]
    /\ UNCHANGED <<strategy, policy, poisoned>>
    /\ UNCHANGED <<loadVars, skeleton, travVars, cntVars, errVars>>

\* When RwLock::read can take the lock: no writer holds it and, under the
\* policy that queues readers behind a waiting writer, no writer is blocked by
\* the readers that hold it.
ReadLockableExclusive == Writers = {} /\ Readers = {}
ReadLockable ==
    /\ Writers = {}
    /\ policy = "readers_queue_behind_writer" =>
          (WaitingWriters = {} \/ Readers = {})

\* When RwLock::write can take the lock: nobody holds it.
WriteLockable == Writers = {} /\ Readers = {}

\* base.rs:386-389 and 409-412: the match on the LockResult. A poisoned lock
\* gives Err(PoisonError), whose guard is dropped at once, and the call returns
\* Err(OzzError::LockPoison); otherwise it returns the guard.
LockResultIgnoringPoison(c, kind) == GrantView(c, kind)
LockResult(c, kind) ==
    IF poisoned
    THEN /\ vpc' = [vpc EXCEPT ![c] = "idle"]
         /\ ret' = [ret EXCEPT ![c] = "LockPoison"]
    ELSE GrantView(c, kind)

\* base.rs:385-390: buf() of Arc<RwLock<Vec<T>>> returns.
LockBufReturn(c) ==
    /\ strategy = "arc_rwlock"
    /\ vpc[c] = "wait_read"
    /\ ReadLockable
    /\ LockResult(c, "reading")
    /\ UNCHANGED <<strategy, policy, poisoned>>
    /\ UNCHANGED <<loadVars, skeleton, travVars, cntVars, errVars>>

\* base.rs:408-413: mut_buf() of Arc<RwLock<Vec<T>>> returns.
LockMutBufReturn(c) ==
    /\ strategy = "arc_rwlock"
    /\ vpc[c] = "wait_write"
    /\ WriteLockable
    /\ LockResult(c, "writing")
    /\ UNCHANGED <<strategy, policy, poisoned>>
    /\ UNCHANGED <<loadVars, skeleton, travVars, cntVars, errVars>>

\* The view (ObSliceRef, ObSliceRefMut, ObCellRef, ObCellRefMut,
\* ObRwLockReadGuard, ObRwLockWriteGuard) goes out of scope.
DropView(c) ==
    /\ vpc[c] \in {"reading", "writing"}
    /\ vpc' = [vpc EXCEPT ![c] = "idle"]
    /\ UNCHANGED <<strategy, policy, poisoned, ret>>
    /\ UNCHANGED <<loadVars, skeleton, travVars, cntVars, errVars>>

\* A thread panics while it holds a view of the lock-protected buffer: the
\* guard is dropped while unwinding, and dropping a write guard in a panicking
\* thread poisons the lock. The code never clears the poison flag.
HolderPanics(c) ==
    /\ strategy = "arc_rwlock"
    /\ vpc[c] \in {"reading", "writing"}
    /\ vpc' = [vpc EXCEPT ![c] = "panicked"]
    /\ poisoned' = (poisoned \/ vpc[c] = "writing")
    /\ UNCHANGED <<strategy, policy, ret>>
    /\ UNCHANGED <<loadVars, skeleton, travVars, cntVars, errVars>>

----------------------------------------------------------------------------
(* OzzError and its is_* predicates (base.rs) *)

\* base.rs:15-45: the variants of enum OzzError, in declaration order.
ErrorKinds == {"LockPoison", "InvalidJob", "InvalidIndex", "IO", "Utf8",
               "InvalidTag", "InvalidVersion", "Custom"}

\* What a variant carries: IO a std::io::Error (its ErrorKind), Utf8 a
\* std::str::Utf8Error (its valid_up_to), Custom a String (which may spell the
\* message of another variant); the other variants carry nothing.
Payloads(kind) ==
    IF kind = "IO" THEN {"UnexpectedEof", "NotFound", "PermissionDenied"}
    ELSE IF kind = "Utf8" THEN {"valid_up_to 0", "valid_up_to 1"}
    ELSE IF kind = "Custom" THEN {"", "Invalid index", "Lock poisoned"}
    ELSE {""}

OzzError(kind, payload) == [kind |-> kind, payload |-> payload]

OzzErrors == UNION {{OzzError(k, p) : p \in Payloads(k)} : k \in ErrorKinds}

\* base.rs:48-95: the predicates, each a match on self with one arm that
\* returns true and `_ => false`.
is_lock_poison(e) == e.kind = "LockPoison"
is_invalid_job(e) == e.kind = "InvalidJob"
is_io(e) == e.kind = "IO"
is_utf8(e) == e.kind = "Utf8"
is_invalid_tag(e) == e.kind = "InvalidTag"
is_invalid_version(e) == e.kind = "InvalidVersion"
is_custom(e) == e.kind = "Custom"

\* The methods of impl OzzError (base.rs:47-96); it has no others.
Predicates == {"is_lock_poison", "is_invalid_job", "is_io", "is_utf8",
               "is_invalid_tag", "is_invalid_version", "is_custom"}

\* A caller asks predicate p of error and keeps the answer.
Answer(p, b) ==
    /\ error # NoValue
    /\ answers[p] = "unasked"
    /\ answers' = [answers EXCEPT ![p] = IF b THEN "true" ELSE "false"]
    /\ UNCHANGED error
    /\ UNCHANGED <<loadVars, skeleton, travVars, bufVars, cntVars>>

IsLockPoison == Answer("is_lock_poison", is_lock_poison(error[1]))
IsInvalidJob == Answer("is_invalid_job", is_invalid_job(error[1]))
IsIo == Answer("is_io", is_io(error[1]))
IsUtf8 == Answer("is_utf8", is_utf8(error[1]))
IsInvalidTag == Answer("is_invalid_tag", is_invalid_tag(error[1]))
IsInvalidVersion == Answer("is_invalid_version", is_invalid_version(error[1]))
IsCustom == Answer("is_custom", is_custom(error[1]))

----------------------------------------------------------------------------
(* Initial states and specifications *)

\* Nothing is being decoded.
LoadIdle ==
    /\ tag = SkeletonTag /\ version = SkeletonVersion
    /\ entry = "none" /\ with_joints = TRUE
    /\ lpc = "idle" /\ reads = <<>> /\ num_joints = 0 /\ idx = 0
    /\ names_read = <<>> /\ joint_names = EmptyMap /\ meta_parents = <<>>
    /\ soa_num_joints = 0 /\ joint_rest_poses = <<>>
    /\ result = "none" /\ meta = NoValue

\* No hierarchy query is running.
TravIdle ==
    /\ from = 0 /\ from_high = 0 /\ i = 0 /\ tpc = "idle" /\ visited = <<>>
    /\ leaf_joint = 0 /\ leaf_result = "none"

\* No buffer is shared.
BufIdle ==
    /\ strategy = "none" /\ policy = "none"
    /\ vpc = [c \in 1..NumCallers |-> "idle"]
    /\ ret = [c \in 1..NumCallers |-> "none"]
    /\ poisoned = FALSE

CntIdle ==
    /\ cpc = "idle" /\ cnt_num_joints = 0 /\ cnt_parents_len = 0 /\ cnt_rest_len = 0

\* No error value is being examined.
ErrIdle ==
    /\ error = NoValue
    /\ answers = [p \in Predicates |-> "unasked"]

\* An archive is about to be decoded by read_meta(archive, with_joints) or by
\* from_archive(archive), which calls read_meta(archive, true).
InitDecode ==
    /\ tag \in Tags
    /\ version \in Versions
    /\ entry \in {"read_meta", "from_archive"}
    /\ with_joints \in (IF entry = "from_archive" THEN {TRUE} ELSE BOOLEAN)
    /\ lpc = "start" /\ reads = <<>> /\ num_joints = 0 /\ idx = 0
    /\ names_read = <<>> /\ joint_names = EmptyMap /\ meta_parents = <<>>
    /\ soa_num_joints = 0 /\ joint_rest_poses = <<>>
    /\ result = "none" /\ meta = NoValue
    /\ skeleton = NoValue
    /\ TravIdle /\ BufIdle /\ CntIdle /\ ErrIdle

InitSizes ==
    /\ cpc = "start"
    /\ cnt_num_joints \in SizeInputs
    /\ cnt_parents_len = 0 /\ cnt_rest_len = 0
    /\ skeleton = NoValue
    /\ LoadIdle /\ TravIdle /\ BufIdle /\ ErrIdle

InitLoad == InitDecode \/ InitSizes

\* A Skeleton of up to MaxJoints joints exists (loaded from an archive, which
\* does not check the parent values): any parent vector, the rest poses and the
\* names that go with its length.
InitTraverse ==
    /\ \E n \in 0..MaxJoints : \E parents \in ParentSeqs(n) :
          skeleton = Some(Skeleton([k \in 1..NumSoaJointsOfLen(n) |-> RestPose],
                                   parents,
                                   {<<NameList[k], k - 1>> : k \in 1..n}))
    /\ TravIdle /\ LoadIdle /\ BufIdle /\ CntIdle /\ ErrIdle

NextTraverse ==
    \/ IsLeaf
    \/ IterStart
    \/ IterStep

SpecTraverse == InitTraverse /\ [][NextTraverse]_vars

\* A buffer of one of the five ownership strategies is shared by the callers.
InitBuf ==
    /\ strategy \in Strategies
    /\ policy \in (IF strategy = "arc_rwlock" THEN Policies ELSE {"none"})
    /\ vpc = [c \in Callers |-> "idle"]
    /\ ret = [c \in Callers |-> "none"]
    /\ poisoned = FALSE
    /\ skeleton = NoValue
    /\ LoadIdle /\ TravIdle /\ CntIdle /\ ErrIdle

NextBuf ==
    \E c \in Callers :
        \/ SliceBuf(c)
        \/ SliceMutBuf(c)
        \/ VecBuf(c)
        \/ VecMutBuf(c)
        \/ CellBuf(c)
        \/ CellMutBuf(c)
        \/ LockBufCall(c)
        \/ LockMutBufCall(c)
        \/ LockBufReturn(c)
        \/ LockMutBufReturn(c)
        \/ DropView(c)
        \/ HolderPanics(c)

SpecBuf == InitBuf /\ [][NextBuf]_vars

NextLoad ==
    \/ CheckHeader
    \/ ReadNumJoints
    \/ ReadCharCount
    \/ ReadName
    \/ ReadParents
    \/ RestPoseCount
    \/ ReadRestPose
    \/ FromArchiveSizes

SpecLoad == InitLoad /\ [][NextLoad]_vars

\* An OzzError value of any variant is at hand (returned by a fallible
\* operation of the library or built by the calling code).
InitError ==
    /\ \E e \in OzzErrors : error = Some(e)
    /\ answers = [p \in Predicates |-> "unasked"]
    /\ skeleton = NoValue
    /\ LoadIdle /\ TravIdle /\ BufIdle /\ CntIdle

NextError ==
    \/ IsLockPoison
    \/ IsInvalidJob
    \/ IsIo
    \/ IsUtf8
    \/ IsInvalidTag
    \/ IsInvalidVersion
    \/ IsCustom

SpecError == InitError /\ [][NextError]_vars

----------------------------------------------------------------------------
(* Claims about the archive decoder, properties of SpecLoad *)

\* The hierarchy of a parent vector is consistent: joint 0 has the root sentinel
\* and every later joint k has the sentinel or a parent index in [0, k).
HierarchyConsistent(parents) ==
    /\ Len(parents) > 0 => At(parents, 0) = SKELETON_NO_PARENT
    /\ \A k \in 1..(Len(parents) - 1) :
          \/ At(parents, k) = SKELETON_NO_PARENT
          \/ (0 <= At(parents, k) /\ At(parents, k) < k)

\* C1: every Skeleton from_archive returns has a consistent hierarchy
\* (joint_parents[0] = -1, and for 0 < i < num_joints joint_parents[i] is -1 or a
\* valid index below i), whatever parent values the archive holds.
C1_LoadedHierarchyConsistent ==
    skeleton # NoValue => HierarchyConsistent(skeleton[1].joint_parents)

\* C5: read_meta checks the header before it reads anything: a wrong tag gives
\* InvalidTag whatever the version, a right tag with a wrong version gives
\* InvalidVersion, in both cases nothing was read from the stream and nothing is
\* returned, and a right header never gives either error.
C5_HeaderValidatedFirst ==
    (lpc # "start" /\ lpc # "idle") =>
        /\ tag # SkeletonTag =>
              (result = "InvalidTag" /\ reads = <<>>
                  /\ meta = NoValue /\ skeleton = NoValue)
        /\ (tag = SkeletonTag /\ version # SkeletonVersion) =>
              (result = "InvalidVersion" /\ reads = <<>>
                  /\ meta = NoValue /\ skeleton = NoValue)
        /\ (tag = SkeletonTag /\ version = SkeletonVersion) =>
              result \notin {"InvalidTag", "InvalidVersion"}

\* A wrong tag together with a wrong version was rejected as InvalidTag.
C5_Witness ==
    /\ result = "InvalidTag" /\ version # SkeletonVersion /\ lpc = "failed"

\* The reads the layout prescribes for a joint count n, in order.
ExpectedReads(n) ==
    <<"num_joints">> \o
    (IF n = 0 THEN <<>>
     ELSE <<"char_count">> \o [k \in 1..n |-> "name"] \o <<"parents">>
             \o [k \in 1..((n + 3) \div 4) |-> "rest_pose"])

ReadKinds == [k \in 1..Len(reads) |-> reads[k][1]]

\* C6: decoding is all-or-nothing: a failed read is the last read performed, its
\* failure is what from_archive returns and no Skeleton is returned; a Skeleton
\* is returned only after every read of the layout (joint count; then, for a
\* non-zero count, char count, num_joints names, the parents, ceil(num_joints/4)
\* rest poses, in that order) has succeeded.
C6_AllOrNothing ==
    entry = "from_archive" =>
        /\ \A k \in 1..(Len(reads) - 1) : reads[k][2] = "ok"
        /\ (Len(reads) > 0 /\ reads[Len(reads)][2] # "ok") =>
              /\ result = reads[Len(reads)][2]
              /\ lpc = "failed"
              /\ skeleton = NoValue
        /\ skeleton # NoValue =>
              /\ result = "Ok"
              /\ \A k \in 1..Len(reads) : reads[k][2] = "ok"
              /\ ReadKinds = ExpectedReads(num_joints)

\* A name failed to decode after the joint count, the char count and two names
\* had been read.
C6_Witness ==
    /\ entry = "from_archive" /\ result = "Utf8"
    /\ Len(reads) = 5 /\ skeleton = NoValue

Distinct(seq) == \A a, b \in 1..Len(seq) : a # b => seq[a] # seq[b]

\* The name map of the returned Skeleton agrees with the names read: n entries,
\* n parents, and joint k <-> the k-th name in both directions.
NamesAgree ==
    /\ Cardinality(skeleton[1].joint_names) = num_joints
    /\ Len(skeleton[1].joint_parents) = num_joints
    /\ \A k \in 0..(num_joints - 1) :
          /\ GetByRight(skeleton[1].joint_names, k) = {At(names_read, k)}
          /\ GetByLeft(skeleton[1].joint_names, At(names_read, k)) = {k}

\* C7 (as stated): after a successful from_archive of an archive declaring
\* n > 0 joints the name map has exactly n entries and maps joint i to the i-th
\* name read and back, for every sequence of n decoded names.
C7_NamesAgreeForEveryNameSequence ==
    (skeleton # NoValue /\ num_joints > 0) => NamesAgree

\* C7 (amended): the same, for archives whose n decoded names are pairwise
\* distinct and whose n fits the 16-bit joint index (n <= 32768).
C7_NamesAgreeForDistinctNames ==
    (skeleton # NoValue /\ num_joints > 0
        /\ num_joints <= I16Max + 1 /\ Distinct(names_read)) => NamesAgree

\* A Skeleton of three joints with three different names was returned.
C7_Witness ==
    /\ skeleton # NoValue /\ num_joints = 3 /\ Distinct(names_read)
    /\ Cardinality(skeleton[1].joint_names) = 3

\* ceil(n / 4), stated without the code's arithmetic: the least q with 4q >= n.
CeilQuarter(n) == CHOOSE q \in 0..n : 4 * q >= n /\ (q = 0 \/ 4 * (q - 1) < n)

\* C8: for every Skeleton from_archive returns, the number of rest poses equals
\* num_soa_joints() and ceil(num_joints() / 4); the count from_archive derives
\* from the archive's i32 joint count agrees with the one the accessor derives
\* from the parent vector's length, up to the top of the i32 range.
C8_RestPoseCount ==
    /\ skeleton # NoValue =>
          /\ Len(skeleton[1].joint_rest_poses) = NumSoaJoints(skeleton[1])
          /\ NumSoaJoints(skeleton[1]) = CeilQuarter(NumJoints(skeleton[1]))
    /\ cpc = "returned" =>
          /\ cnt_rest_len = NumSoaJointsOfLen(cnt_parents_len)
          /\ 4 * (cnt_rest_len - 1) < cnt_parents_len
          /\ cnt_parents_len - cnt_rest_len <= 3 * cnt_rest_len

\* A Skeleton of five joints with two rest-pose records was returned.
C8_Witness ==
    /\ skeleton # NoValue
    /\ NumJoints(skeleton[1]) = 5 /\ Len(skeleton[1].joint_rest_poses) = 2

----------------------------------------------------------------------------
(* Claims about the hierarchy queries, properties of SpecTraverse *)

\* The pre-order invariant: the parent of joint k is the sentinel or an index
\* below k.
PreOrder(parents) ==
    \A k \in 0..(Len(parents) - 1) :
        \/ At(parents, k) = SKELETON_NO_PARENT
        \/ (0 <= At(parents, k) /\ At(parents, k) < k)

\* Joint a is joint k or one of its ancestors (for a pre-order parent vector).
RECURSIVE IsAncestorOrSelf(_, _, _)
IsAncestorOrSelf(parents, a, k) ==
    \/ k = a
    \/ /\ At(parents, k) >= 0
       /\ At(parents, k) < k
       /\ IsAncestorOrSelf(parents, a, At(parents, k))

Subtree(parents, a) ==
    {k \in 0..(Len(parents) - 1) : IsAncestorOrSelf(parents, a, k)}

\* The depth-first (pre-order) layout: every joint is stored after its parent
\* and before any joint outside its subtree, so each subtree is a block of
\* consecutive joints that starts with its root.
DepthFirstLayout(parents) ==
    /\ PreOrder(parents)
    /\ \A a \in 0..(Len(parents) - 1) : \A k \in Subtree(parents, a) :
          \A m \in a..k : m \in Subtree(parents, a)

\* The calls f(k, joint_parents[k]) for the joints lo, lo + 1, ..., hi - 1.
Calls(parents, lo, hi) ==
    [k \in 1..(hi - lo) |-> <<lo + k - 1, At(parents, lo + k - 1)>>]

\* The first joint after joint 0 whose parent is the sentinel, or num_joints.
NextRoot(parents) ==
    IF \E k \in 1..(Len(parents) - 1) : At(parents, k) = SKELETON_NO_PARENT
    THEN CHOOSE k \in 1..(Len(parents) - 1) :
            /\ At(parents, k) = SKELETON_NO_PARENT
            /\ \A m \in 1..(k - 1) : At(parents, m) # SKELETON_NO_PARENT
    ELSE Len(parents)

\* C2 (as stated): on a skeleton with the pre-order invariant, iter_depth_first
\* started at the root (from negative, or from = 0) calls f exactly num_joints
\* times, for the joints 0, 1, ..., num_joints - 1 in this order with their
\* parents, also when several joints have parent -1.
C2_RootVisitsAllFromZeroToo ==
    (tpc = "done" /\ from_high = 0 /\ from <= 0
        /\ PreOrder(skeleton[1].joint_parents)) =>
        visited = Calls(skeleton[1].joint_parents, 0, NumJoints(skeleton[1]))

\* C2 (amended): with a negative from it does so; with from = 0 it calls f for
\* the joints 0, 1, ... up to, not including, the first later joint whose parent
\* is -1, which is every joint exactly when joint 0 is the only joint with
\* parent -1.
C2_RootVisitsAll ==
    (tpc = "done" /\ from_high = 0 /\ PreOrder(skeleton[1].joint_parents)) =>
        /\ from < 0 =>
              visited = Calls(skeleton[1].joint_parents, 0, NumJoints(skeleton[1]))
        /\ (from = 0 /\ NumJoints(skeleton[1]) > 0) =>
              visited = Calls(skeleton[1].joint_parents, 0,
                              NextRoot(skeleton[1].joint_parents))

\* A traversal from a negative from has visited all three joints of a skeleton
\* with two roots.
C2_Witness ==
    /\ tpc = "done" /\ from_high = 0 /\ from < 0 /\ Len(visited) = 3
    /\ skeleton[1].joint_parents = <<SKELETON_NO_PARENT, 0, SKELETON_NO_PARENT>>

VisitedJoints == {visited[k][1] : k \in 1..Len(visited)}

\* C3: on a skeleton in depth-first layout and for 0 <= from < num_joints, the
\* joints iter_depth_first(from, f) calls f for are exactly the subtree rooted at
\* from, each once, in increasing index order, each with its stored parent.
C3_VisitsExactlySubtree ==
    (tpc = "done" /\ from_high = 0 /\ 0 <= from /\ from < NumJoints(skeleton[1])
        /\ DepthFirstLayout(skeleton[1].joint_parents)) =>
        /\ VisitedJoints = Subtree(skeleton[1].joint_parents, from)
        /\ Len(visited) = Cardinality(Subtree(skeleton[1].joint_parents, from))
        /\ \A k \in 1..Len(visited) :
              /\ visited[k][2] = At(skeleton[1].joint_parents, visited[k][1])
              /\ k > 1 => visited[k - 1][1] < visited[k][1]

\* The traversal from joint 1 of the skeleton 0 <- 1 <- 2, 0 <- 3 has visited
\* joints 1 and 2 and stopped before joint 3.
C3_Witness ==
    /\ tpc = "done" /\ from_high = 0 /\ from = 1
    /\ skeleton[1].joint_parents = <<SKELETON_NO_PARENT, 0, 1, 0>>
    /\ VisitedJoints = {1, 2}

\* C4: on a skeleton in depth-first layout and for a joint in [0, num_joints),
\* is_leaf returns true exactly when the joint has no child, which is exactly
\* when it is the last joint or the next joint's parent is another joint.
C4_IsLeafIffNoChild ==
    (leaf_result # "none" /\ leaf_joint < NumJoints(skeleton[1])
        /\ DepthFirstLayout(skeleton[1].joint_parents)) =>
        /\ leaf_result \in {"true", "false"}
        /\ leaf_result = "true" <=>
              ~ \E j \in 0..(NumJoints(skeleton[1]) - 1) :
                    At(skeleton[1].joint_parents, j) = leaf_joint
        /\ leaf_result = "true" <=>
              \/ leaf_joint = NumJoints(skeleton[1]) - 1
              \/ At(skeleton[1].joint_parents, leaf_joint + 1) # leaf_joint

\* is_leaf answered true for joint 1 of the skeleton 0 <- 1, 0 <- 2, 2 <- 3: a
\* leaf that is not the last joint.
C4_Witness ==
    /\ leaf_result = "true" /\ leaf_joint = 1
    /\ skeleton[1].joint_parents = <<SKELETON_NO_PARENT, 0, 0, 2>>

----------------------------------------------------------------------------
(* Claims about the buffer views, properties of SpecBuf *)

\* C9 (as stated): under Arc<RwLock<Vec<T>>>, in every interleaving, (1) a live
\* write view never coexists with another live view; (2) a buf() request is
\* granted whenever no write view is live; (3) a mut_buf() request is not
\* granted while read views are live.
C9_ReadGrantedWheneverNoWriteView ==
    strategy = "arc_rwlock" =>
        /\ \A c \in Writers : \A d \in Callers \ {c} :
              vpc[d] \notin {"reading", "writing"}
        /\ \A c \in Callers :
              (vpc[c] = "wait_read" /\ Writers = {}) => ENABLED LockBufReturn(c)
        /\ \A c \in Callers :
              (vpc[c] = "wait_write" /\ Readers # {}) => ~ ENABLED LockMutBufReturn(c)

\* C9 (amended): (1) and (3) as stated; (2) a buf() request is never made to
\* wait by readers alone: it is granted whenever no write view is live and no
\* mut_buf() request is waiting (while one waits, the lock's platform-dependent
\* priority policy may hold new readers back until the writer was served).
C9_ReadersWriterExclusion ==
    strategy = "arc_rwlock" =>
        /\ \A c \in Writers : \A d \in Callers \ {c} :
              vpc[d] \notin {"reading", "writing"}
        /\ \A c \in Callers :
              (vpc[c] = "wait_read" /\ Writers = {} /\ WaitingWriters = {})
                  => ENABLED LockBufReturn(c)
        /\ \A c \in Callers :
              (vpc[c] = "wait_write" /\ Readers # {}) => ~ ENABLED LockMutBufReturn(c)

\* Two read views are live together while a mut_buf() request waits for them.
C9_Witness ==
    /\ strategy = "arc_rwlock"
    /\ Cardinality(Readers) = 2 /\ Cardinality(WaitingWriters) = 1

\* The state part of C10: only the lock strategy ever returned an error, and
\* only from a poisoned lock; no view of a poisoned lock is live.
C10_State ==
    /\ \A c \in Callers : ret[c] \in {"none", "Ok", "LockPoison"}
    /\ \A c \in Callers :
          ret[c] = "LockPoison" => (strategy = "arc_rwlock" /\ poisoned)
    /\ poisoned => (strategy = "arc_rwlock" /\ Readers = {} /\ Writers = {})

\* The step part of C10. For the lock strategy: a returning buf()/mut_buf()
\* yields LockPoison (and no view) exactly when the lock is poisoned and a view
\* otherwise; the panic of the holder of a write view poisons the lock, nothing
\* else does, and a poisoned lock stays poisoned. For the other strategies: a
\* call that hands out a view returns Ok.
C10_Step ==
    /\ strategy = "arc_rwlock" =>
          /\ \A c \in Callers :
                (vpc[c] \in {"wait_read", "wait_write"} /\ vpc'[c] # vpc[c]) =>
                    IF poisoned
                    THEN ret'[c] = "LockPoison" /\ vpc'[c] = "idle"
                    ELSE /\ ret'[c] = "Ok"
                         /\ vpc'[c] = IF vpc[c] = "wait_read"
                                      THEN "reading" ELSE "writing"
          /\ \A c \in Callers :
                (vpc[c] = "writing" /\ vpc'[c] = "panicked") => poisoned'
          /\ poisoned => poisoned'
          /\ (~poisoned /\ poisoned') =>
                \E c \in Callers : vpc[c] = "writing" /\ vpc'[c] = "panicked"
    /\ strategy # "arc_rwlock" =>
          \A c \in Callers :
              (vpc[c] = "idle" /\ vpc'[c] \in {"reading", "writing"}) => ret'[c] = "Ok"

\* C10: buf() and mut_buf() return Err only for Arc<RwLock<Vec<T>>> and only
\* LockPoison: never for &[T], &mut [T], Vec<T> and Rc<RefCell<Vec<T>>>; for the
\* lock exactly when it is poisoned, which it is in every state after the panic
\* of a thread that held a write view, so that from then on every call yields
\* LockPoison as a value and no view; an unpoisoned lock yields a view.
C10_ErrOnlyLockPoison == [](C10_State) /\ [][C10_Step]_vars

\* A thread's call returned LockPoison after another thread panicked.
C10_Witness ==
    /\ strategy = "arc_rwlock" /\ poisoned
    /\ \E c, d \in Callers : ret[c] = "LockPoison" /\ vpc[d] = "panicked"

----------------------------------------------------------------------------
(* Claims about the error taxonomy, properties of SpecError *)

\* The predicate that, by the naming of the others, answers for a variant.
PredicateOf(kind) ==
    CASE kind = "LockPoison" -> "is_lock_poison"
      [] kind = "InvalidJob" -> "is_invalid_job"
      [] kind = "InvalidIndex" -> "is_invalid_index"
      [] kind = "IO" -> "is_io"
      [] kind = "Utf8" -> "is_utf8"
      [] kind = "InvalidTag" -> "is_invalid_tag"
      [] kind = "InvalidVersion" -> "is_invalid_version"
      [] kind = "Custom" -> "is_custom"

AllAsked == \A p \in Predicates : answers[p] # "unasked"

\* C11: every one of the eight variants has an is_* predicate on OzzError,
\* which returns true for the values of its variant and false for the values
\* of every other variant; so once every predicate has been asked of a value,
\* exactly one of them has returned true.
C11_ExactlyOnePredicateTrue ==
    error # NoValue =>
        /\ \A p \in Predicates :
              answers[p] # "unasked" =>
                  (answers[p] = "true" <=> p = PredicateOf(error[1].kind))
        /\ AllAsked => Cardinality({p \in Predicates : answers[p] = "true"}) = 1

----------------------------------------------------------------------------
(* Claims about the documented input ranges of the hierarchy queries,         *)
(* properties of SpecTraverse                                                 *)

\* C12: is_leaf is defined on the whole range its doc comment gives: for every
\* skeleton and every joint in [0, num_joints], both ends included, it returns
\* a boolean and does not index joint_parents outside [0, num_joints).
C12_IsLeafDefinedOnDocumentedRange ==
    (/\ skeleton # NoValue
     /\ leaf_result # "none"
     /\ leaf_joint \in 0..NumJoints(skeleton[1]))
        => leaf_result \in {"true", "false"}

\* The value of the argument from is from_high * 2^31 + from: it is at or
\* above num_joints exactly when from_high > 0 or from >= num_joints.
FromAtOrAbove(n) == from_high > 0 \/ from >= n

\* C13: for every joint_parents array, also one that breaks the pre-order
\* invariant, and every start value from, iter_depth_first terminates and never
\* reads joint_parents outside [0, num_joints); it calls f for consecutive
\* indices starting at max(from, 0), so at most num_joints - max(from, 0)
\* times (which bounds the turns of the loop), and not at all when
\* from >= num_joints or the skeleton is empty.
C13_BoundedInRangeTraversal ==
    (skeleton # NoValue /\ tpc # "idle") =>
        LET n == NumJoints(skeleton[1])
            first == IF from < 0 THEN 0 ELSE from
        IN  /\ tpc # "panicked"
            /\ (FromAtOrAbove(n) \/ n = 0) => visited = <<>>
            /\ ~FromAtOrAbove(n) =>
                  /\ Len(visited) <= n - first
                  /\ \A k \in 1..Len(visited) : visited[k][1] = first + (k - 1)

====
